---- MODULE Spec2Model ----
(***************************************************************************)
(* Model of src/etl.py: the ETLProcess pipeline that conforms customer,    *)
(* employee, product and billing sources into four dimension tables and    *)
(* one fact table and appends them to the destination database.            *)
(*                                                                         *)
(* Text is modelled as a sequence of one-character strings so that         *)
(* lower(), strip(), split(), substring tests and date parsing are         *)
(* computed character by character, as the code does.  A nullable value    *)
(* (None, NaN, NaT) is modelled as the empty tuple and a present value v   *)
(* as the one-element tuple <<v>>.                                         *)
(***************************************************************************)
EXTENDS Integers, Sequences, FiniteSets, TLC

VARIABLES
    today,                 \* datetime.today() of the run: [year, month, day]
    Customer_R,            \* rows of data/Customer_R.xml
    Customer_W,            \* rows of data/Customer_W.xml
    Regions_txt,           \* rows of data/Regions.txt
    Employee_xls,          \* rows of data/Employee.xls
    Products_txt,          \* rows of data/Products.txt
    billing_data,          \* rows of billing JOIN billing_detail JOIN prices
    missing,               \* the source files, relations and columns that are absent
    regiones,              \* self.regiones
    dimension_clientes,    \* self.dimension_clientes
    dimension_empleados,   \* self.dimension_empleados
    dimension_productos,   \* self.dimension_productos
    dimension_tiempo,      \* self.dimension_tiempo
    ventas,                \* self.ventas
    csv,                   \* the CSV files written by guardar_datos
    dest,                  \* the destination database tp4_dh
    dump,                  \* the file written by mysqldump
    log,                   \* the logging.warning records of region misses
    pc                     \* position in the __main__ script

vars == <<today, Customer_R, Customer_W, Regions_txt, Employee_xls,
          Products_txt, billing_data, missing, regiones, dimension_clientes,
          dimension_empleados, dimension_productos, dimension_tiempo,
          ventas, csv, dest, dump, log, pc>>

inputs == <<today, Customer_R, Customer_W, Regions_txt, Employee_xls,
            Products_txt, billing_data, missing>>

(***************************************************************************)
(* Nullable values.                                                        *)
(***************************************************************************)
None == <<>>

Some(v) == <<v>>

isnull(o) == o = <<>>

Val(o) == o[1]

SetMin(S) == CHOOSE x \in S : \A y \in S : x <= y

SetMax(S) == CHOOSE x \in S : \A y \in S : y <= x

Range(s) == {s[i] : i \in 1..Len(s)}

(***************************************************************************)
(* Python str methods, on sequences of characters.                         *)
(***************************************************************************)
LowerMap ==
    [A |-> "a", B |-> "b", C |-> "c", D |-> "d", E |-> "e", F |-> "f",
     G |-> "g", H |-> "h", I |-> "i", J |-> "j", K |-> "k", L |-> "l",
     M |-> "m", N |-> "n", O |-> "o", P |-> "p", Q |-> "q", R |-> "r",
     S |-> "s", T |-> "t", U |-> "u", V |-> "v", W |-> "w", X |-> "x",
     Y |-> "y", Z |-> "z"]

Whitespace == {" ", "\t"}

str_lower(s) ==
    [i \in 1..Len(s) |-> IF s[i] \in DOMAIN LowerMap THEN LowerMap[s[i]] ELSE s[i]]

str_strip(s) ==
    LET keep == {i \in 1..Len(s) : s[i] \notin Whitespace}
    IN  IF keep = {} THEN <<>> ELSE SubSeq(s, SetMin(keep), SetMax(keep))

str_rstrip(s) ==
    LET keep == {i \in 1..Len(s) : s[i] \notin Whitespace}
    IN  IF keep = {} THEN <<>> ELSE SubSeq(s, 1, SetMax(keep))

\* kw in s
str_contains(s, kw) ==
    \E i \in 1..(Len(s) - Len(kw) + 1) : SubSeq(s, i, i + Len(kw) - 1) = kw

RECURSIVE str_split(_, _)
\* s.split(sep) for a one-character separator
str_split(s, sep) ==
    LET at == {i \in 1..Len(s) : s[i] = sep}
    IN  IF at = {} THEN <<s>>
        ELSE <<SubSeq(s, 1, SetMin(at) - 1)>>
             \o str_split(SubSeq(s, SetMin(at) + 1, Len(s)), sep)

DigitChars == <<"0", "1", "2", "3", "4", "5", "6", "7", "8", "9">>

IsDigits(s) == Len(s) > 0 /\ \A i \in 1..Len(s) : s[i] \in Range(DigitChars)

DigitVal(c) == (CHOOSE i \in 1..10 : DigitChars[i] = c) - 1

RECURSIVE ParseNat(_)
ParseNat(s) ==
    IF s = <<>> THEN 0
    ELSE 10 * ParseNat(SubSeq(s, 1, Len(s) - 1)) + DigitVal(s[Len(s)])

RECURSIVE FmtNat(_, _)
\* n printed in `width` digits, zero padded
FmtNat(n, width) ==
    IF width = 0 THEN <<>>
    ELSE FmtNat(n \div 10, width - 1) \o <<DigitChars[(n % 10) + 1]>>

\* float(tok) / int(tok): None stands for the ValueError
parse_number(tok) == IF IsDigits(tok) THEN Some(ParseNat(tok)) ELSE None

(***************************************************************************)
(* Dates.                                                                  *)
(***************************************************************************)
NaT == None

IsLeap(y) == y % 4 = 0 /\ (y % 100 # 0 \/ y % 400 = 0)

DaysInMonth(y, m) ==
    IF m = 2 THEN (IF IsLeap(y) THEN 29 ELSE 28)
    ELSE IF m \in {4, 6, 9, 11} THEN 30 ELSE 31

RECURSIVE DaysBeforeMonth(_, _)
DaysBeforeMonth(y, m) ==
    IF m = 1 THEN 0 ELSE DaysBeforeMonth(y, m - 1) + DaysInMonth(y, m - 1)

\* date.toordinal()
toordinal(d) ==
    LET p == d.year - 1
    IN  p * 365 + p \div 4 - p \div 100 + p \div 400
        + DaysBeforeMonth(d.year, d.month) + d.day

\* pd.to_datetime(raw, errors='coerce') on a 'YYYY-MM-DD' text
to_datetime(raw) ==
    IF /\ Len(raw) = 10
       /\ raw[5] = "-" /\ raw[8] = "-"
       /\ IsDigits(SubSeq(raw, 1, 4))
       /\ IsDigits(SubSeq(raw, 6, 7))
       /\ IsDigits(SubSeq(raw, 9, 10))
    THEN LET y == ParseNat(SubSeq(raw, 1, 4))
             m == ParseNat(SubSeq(raw, 6, 7))
             d == ParseNat(SubSeq(raw, 9, 10))
         IN  IF y >= 1 /\ m \in 1..12 /\ d >= 1 /\ d <= DaysInMonth(y, m)
             THEN Some([year |-> y, month |-> m, day |-> d])
             ELSE NaT
    ELSE NaT

\* Series.dt.strftime('%Y-%m-%d'); NaT gives NaN
strftime(o) ==
    IF isnull(o) THEN None
    ELSE Some(FmtNat(Val(o).year, 4) \o <<"-">> \o FmtNat(Val(o).month, 2)
              \o <<"-">> \o FmtNat(Val(o).day, 2))

\* Series.dt.quarter
quarter(m) == ((m - 1) \div 3) + 1

(***************************************************************************)
(* DataFrame helpers.                                                      *)
(***************************************************************************)
RECURSIVE Pick(_, _, _)
\* the rows of s whose index is in keep, from index i on, in order
Pick(s, keep, i) ==
    IF i > Len(s) THEN <<>>
    ELSE (IF i \in keep THEN <<s[i]>> ELSE <<>>) \o Pick(s, keep, i + 1)

\* keep='last' instead of keep='first'
unique_keep_last(s) ==
    Pick(s, {i \in 1..Len(s) : \A j \in (i + 1)..Len(s) : s[j] # s[i]}, 1)

\* Series.drop_duplicates() (keep='first') on a sequence of values
unique(s) ==
    Pick(s, {i \in 1..Len(s) : \A j \in 1..(i - 1) : s[j] # s[i]}, 1)

\* keep='last' instead of keep='first'
drop_duplicates_keep_last(df, keys) ==
    Pick(df, {i \in 1..Len(df) : \A j \in (i + 1)..Len(df) : keys[j] # keys[i]}, 1)

\* df.drop_duplicates(subset=[col]) (keep='first'); keys is the column
drop_duplicates(df, keys) ==
    Pick(df, {i \in 1..Len(df) : \A j \in 1..(i - 1) : keys[j] # keys[i]}, 1)

(***************************************************************************)
(* Customer conformer.                                                     *)
(***************************************************************************)
\* whitespace trimmed but case left as it is
normalizar_regiones_nolower(regs) ==
    [i \in 1..Len(regs) |->
        [regs[i] EXCEPT !.CITY = str_strip(regs[i].CITY),
                        !.STATE_ = str_strip(regs[i].STATE_)]]

\* self.regiones after lines 459-460
normalizar_regiones(regs) ==
    [i \in 1..Len(regs) |->
        [regs[i] EXCEPT !.CITY = str_strip(str_lower(regs[i].CITY)),
                        !.STATE_ = str_strip(str_lower(regs[i].STATE_))]]

\* the difference of the years, without the birthday adjustment
calcular_edad_year_only(fecha_nacimiento, hoy) ==
    hoy.year - fecha_nacimiento.year

calcular_edad(fecha_nacimiento, hoy) ==
    hoy.year - fecha_nacimiento.year
    - (IF \/ hoy.month < fecha_nacimiento.month
          \/ /\ hoy.month = fecha_nacimiento.month
             /\ hoy.day < fecha_nacimiento.day
       THEN 1 ELSE 0)

rango_edad(birth_date, hoy) ==
    IF isnull(birth_date) THEN "Desconocido"
    ELSE LET age == calcular_edad(Val(birth_date), hoy)
         IN  IF age < 20 THEN "Menos de 20"
             ELSE IF 20 <= age /\ age < 40 THEN "20 a 40"
             ELSE IF 40 <= age /\ age < 60 THEN "40 a 60"
             ELSE "Mas de 60"

\* the rows of the (normalized) region table matching ciudad and estado
region_match(regs, ciudad, estado) ==
    SelectSeq(regs, LAMBDA r : r.CITY = ciudad /\ r.STATE_ = estado)

zona_cliente(regs, ciudad, estado) ==
    LET region == region_match(regs, ciudad, estado)
    IN  IF region # <<>> THEN Some(str_strip(region[1].REGION)) ELSE None

\* one row of traducir_cliente; regs is the normalized region table
traducir_cliente_row(row, tipo_cliente, regs, hoy) ==
    LET ciudad == str_strip(str_lower(row.CITY))
        estado == str_strip(str_lower(row.STATE_))
    IN  [id_cliente   |-> row.CUSTOMER_ID,
         nombre       |-> row.FULL_NAME,
         ciudad       |-> ciudad,
         provincia    |-> estado,
         zona         |-> zona_cliente(regs, ciudad, estado),
         tipo_cliente |-> tipo_cliente,
         rango_edad   |-> rango_edad(to_datetime(row.BIRTH_DATE), hoy)]

traducir_cliente(df, tipo_cliente, regs, hoy) ==
    [i \in 1..Len(df) |-> traducir_cliente_row(df[i], tipo_cliente, regs, hoy)]

\* the warnings of line 474, one per row without a region, in row order
no_macheos(clientes) ==
    LET miss == SelectSeq(clientes, LAMBDA r : isnull(r.zona))
    IN  [i \in 1..Len(miss) |-> <<miss[i].ciudad, miss[i].provincia>>]

(***************************************************************************)
(* Employee conformer.                                                     *)
(***************************************************************************)
\* (datetime.today() - fecha_empleo).dt.days // 365; NaT gives NaN
antiguedad(fecha_empleo, hoy) ==
    IF isnull(fecha_empleo) THEN None
    ELSE Some((toordinal(hoy) - toordinal(Val(fecha_empleo))) \div 365)

\* an undefined tenure counted as zero years
zona_empleado_nan_as_zero(ant) ==
    IF isnull(ant) \/ Val(ant) < 1 THEN "Nuevo"
    ELSE IF Val(ant) < 5 THEN "Medio"
    ELSE "Antiguo"

\* the zone edges taken with <= instead of <
zona_empleado_le(ant) ==
    IF ~isnull(ant) /\ Val(ant) <= 1 THEN "Nuevo"
    ELSE IF ~isnull(ant) /\ Val(ant) <= 5 THEN "Medio"
    ELSE "Antiguo"

\* a comparison with NaN is False
zona_empleado(ant) ==
    IF ~isnull(ant) /\ Val(ant) < 1 THEN "Nuevo"
    ELSE IF ~isnull(ant) /\ Val(ant) < 5 THEN "Medio"
    ELSE "Antiguo"

sexo(code) ==
    IF code = "M" THEN "Masculino" ELSE IF code = "F" THEN "Femenino" ELSE code

traducir_empleado_row(row, hoy) ==
    LET ant == antiguedad(to_datetime(row.EMPLOYMENT_DATE), hoy)
    IN  [id_vendedor      |-> row.EMPLOYEE_ID,
         nombre           |-> row.FULL_NAME,
         sexo             |-> sexo(row.GENDER),
         antiguedad       |-> ant,
         fecha_nacimiento |-> row.BIRTH_DATE,
         zona             |-> zona_empleado(ant)]

traducir_empleado(df, hoy) ==
    [i \in 1..Len(df) |-> traducir_empleado_row(df[i], hoy)]

(***************************************************************************)
(* Product conformer.                                                      *)
(***************************************************************************)
kw_can == <<"c", "a", "n">>

kw_Liter == <<"L", "i", "t", "e", "r">>

kw_cm3 == <<"c", "m", "3">>

kw_diet == <<"d", "i", "e", "t">>

kw_caffeine == <<"c", "a", "f", "f", "e", "i", "n", "e">>

kw_energy == <<"e", "n", "e", "r", "g", "y">>

kw_kool == <<"k", "o", "o", "l">>

kw_root == <<"r", "o", "o", "t">>

kw_juice == <<"j", "u", "i", "c", "e">>

kw_soda == <<"s", "o", "d", "a">>

\* cubic centimeters returned without the division by 1000
transform_liters_cm3_undivided(lst) ==
    IF Len(lst) < 2 THEN [raises |-> TRUE, value |-> None]
    ELSE IF lst[2] = kw_Liter \/ lst[2] = kw_cm3
    THEN LET n == parse_number(str_strip(lst[1]))
         IN  IF isnull(n) THEN [raises |-> TRUE, value |-> None]
             ELSE [raises |-> FALSE, value |-> Some([num |-> Val(n), den |-> 1])]
    ELSE [raises |-> FALSE, value |-> None]

\* a volume in liters is the fraction num / den
\* result: raises (IndexError or ValueError) or the value, NaN being None
transform_liters(lst) ==
    IF Len(lst) < 2 THEN [raises |-> TRUE, value |-> None]
    ELSE IF lst[2] = kw_Liter
    THEN LET n == parse_number(str_strip(lst[1]))
         IN  IF isnull(n) THEN [raises |-> TRUE, value |-> None]
             ELSE [raises |-> FALSE, value |-> Some([num |-> Val(n), den |-> 1])]
    ELSE IF lst[2] = kw_cm3
    THEN LET n == parse_number(str_strip(lst[1]))
         IN  IF isnull(n) THEN [raises |-> TRUE, value |-> None]
             ELSE [raises |-> FALSE, value |-> Some([num |-> Val(n), den |-> 1000])]
    ELSE [raises |-> FALSE, value |-> None]

\* the soda rule tested before the others
clasificar_bebida_soda_first(detalle) ==
    LET d == str_lower(detalle)
    IN  IF str_contains(d, kw_soda) THEN "Bebida de soda"
        ELSE IF str_contains(d, kw_diet) THEN "Bebida de dieta"
        ELSE IF str_contains(d, kw_caffeine) THEN "Bebida de cafeina"
        ELSE IF str_contains(d, kw_energy) THEN "Bebida energetica"
        ELSE IF str_contains(d, kw_kool) THEN "Bebida Kool"
        ELSE IF str_contains(d, kw_root) THEN "Bebida Root"
        ELSE IF str_contains(d, kw_juice) THEN "Jugo"
        ELSE "Otro tipo de bebida"

clasificar_bebida(detalle) ==
    LET d == str_lower(detalle)
    IN  IF str_contains(d, kw_diet) THEN "Bebida de dieta"
        ELSE IF str_contains(d, kw_caffeine) THEN "Bebida de cafeina"
        ELSE IF str_contains(d, kw_energy) THEN "Bebida energetica"
        ELSE IF str_contains(d, kw_kool) THEN "Bebida Kool"
        ELSE IF str_contains(d, kw_root) THEN "Bebida Root"
        ELSE IF str_contains(d, kw_juice) THEN "Jugo"
        ELSE IF str_contains(d, kw_soda) THEN "Bebida de soda"
        ELSE "Otro tipo de bebida"

tipoEnvase(old_package) ==
    IF str_contains(str_lower(old_package), kw_can) THEN "Can" ELSE "Bottle"

\* does the conversion of this catalog row raise?
producto_raises(row) ==
    \/ isnull(parse_number(str_strip(str_rstrip(row.product_id))))
    \/ transform_liters(str_split(row.tipoEnvase, " ")).raises

producto_row(row) ==
    [product_id |-> Val(parse_number(str_strip(str_rstrip(row.product_id)))),
     detalle    |-> str_rstrip(row.detalle),
     tipoEnvase |-> tipoEnvase(row.tipoEnvase),
     litros     |-> transform_liters(str_split(row.tipoEnvase, " ")).value,
     tipoBebida |-> clasificar_bebida(str_rstrip(row.detalle))]

(***************************************************************************)
(* Time and fact builder.                                                  *)
(***************************************************************************)
\* billing_df after lines 269-270: date parsed, rows with NaT dropped
billing_df(rows) ==
    LET parsed == [i \in 1..Len(rows) |->
                      [rows[i] EXCEPT !.date = to_datetime(rows[i].date)]]
    IN  SelectSeq(parsed, LAMBDA r : ~isnull(r.date))

\* lines 273-281; the column named with the Spanish word for year is anio
tiempo_rows(bdf) ==
    LET unique_dates == unique([i \in 1..Len(bdf) |-> bdf[i].date])
    IN  [i \in 1..Len(unique_dates) |->
            [id_tiempo |-> i,
             fecha     |-> unique_dates[i],
             dia       |-> Val(unique_dates[i]).day,
             mes       |-> Val(unique_dates[i]).month,
             trimestre |-> quarter(Val(unique_dates[i]).month),
             anio      |-> Val(unique_dates[i]).year]]

\* the map built from the 0-based index, without the + 1 of line 275
date_id_map_index(tiempo, fecha) ==
    LET hit == {i \in 1..Len(tiempo) : tiempo[i].fecha = fecha}
    IN  IF hit = {} THEN None ELSE Some(SetMin(hit) - 1)

\* billing_df['date'].map(date_id_map): NaN when the date is not in the map
date_id_map(tiempo, fecha) ==
    LET hit == {i \in 1..Len(tiempo) : tiempo[i].fecha = fecha}
    IN  IF hit = {} THEN None ELSE Some(tiempo[SetMin(hit)].id_tiempo)

ventas_rows(bdf, tiempo) ==
    [i \in 1..Len(bdf) |->
        [id_tiempo   |-> date_id_map(tiempo, bdf[i].date),
         id_cliente  |-> bdf[i].customer_id,
         id_vendedor |-> bdf[i].employee_id,
         id_producto |-> bdf[i].product_id,
         cantidad    |-> bdf[i].quantity,
         precio      |-> bdf[i].price]]

(***************************************************************************)
(* Load orchestrator.                                                      *)
(***************************************************************************)
\* lines 192-194 on the employee table
fecha_nacimiento_str(df) ==
    [i \in 1..Len(df) |->
        [df[i] EXCEPT !.fecha_nacimiento = strftime(to_datetime(@))]]

\* lines 200-202 on the time table (the column already holds datetimes)
fecha_str(df) ==
    [i \in 1..Len(df) |-> [df[i] EXCEPT !.fecha = strftime(@)]]

\* the frames as insertar_datos leaves them before each to_sql (lines 186-202)
insert_clientes(df) ==
    IF df # <<>> THEN drop_duplicates(df, [i \in 1..Len(df) |-> df[i].id_cliente])
    ELSE df

insert_empleados(df) ==
    IF df # <<>>
    THEN fecha_nacimiento_str(
             drop_duplicates(df, [i \in 1..Len(df) |-> df[i].id_vendedor]))
    ELSE df

insert_productos(df) ==
    IF df # <<>> THEN drop_duplicates(df, [i \in 1..Len(df) |-> df[i].product_id])
    ELSE df

insert_tiempo(df) ==
    IF df # <<>>
    THEN fecha_str(drop_duplicates(df, [i \in 1..Len(df) |-> df[i].id_tiempo]))
    ELSE df

\* df.columns[0] of self.ventas is id_tiempo (line 288)
insert_ventas(df) ==
    IF df # <<>> THEN drop_duplicates(df, [i \in 1..Len(df) |-> df[i].id_tiempo])
    ELSE df

\* the ForeignKey constraints of tabla_hecho_ventas (lines 139-142); NULL passes
fk_ok(row, db) ==
    /\ isnull(row.id_tiempo)
         \/ \E t \in Range(db.dimension_tiempo) : t.id_tiempo = Val(row.id_tiempo)
    /\ \E c \in Range(db.dimension_clientes) : c.id_cliente = row.id_cliente
    /\ \E e \in Range(db.dimension_vendedores) : e.id_vendedor = row.id_vendedor
    /\ \E q \in Range(db.dimension_productos) : q.product_id = row.id_producto

\* the rows as stored, with the autoincrement id_venta (line 138)
ventas_stored(df, stored) ==
    [i \in 1..Len(df) |->
        [id_venta    |-> Len(stored) + i,
         id_tiempo   |-> df[i].id_tiempo,
         id_cliente  |-> df[i].id_cliente,
         id_vendedor |-> df[i].id_vendedor,
         id_producto |-> df[i].id_producto,
         cantidad    |-> df[i].cantidad,
         precio      |-> df[i].precio]]

(***************************************************************************)
(* The stages of the __main__ script, one action each.                     *)
(***************************************************************************)
\* A missing file makes read_xml or open raise before anything is assigned
\* (lines 309-312); a missing column makes traducir_cliente raise at lines
\* 456-458, for the retail frame before the region table is normalized, for
\* the wholesale frame after the retail frame was translated.
cargar_clientes ==
    /\ pc = "cargar_clientes"
    /\ LET regs == normalizar_regiones(Regions_txt)
           customer_r == traducir_cliente(Customer_R, "minorista", regs, today)
           customer_w == traducir_cliente(Customer_W, "mayorista", regs, today)
       IN  IF missing \cap {"Customer_R.xml", "Customer_W.xml", "Regions.txt"} # {}
           THEN /\ pc' = "raise cargar_clientes"
                /\ UNCHANGED <<regiones, dimension_clientes, log>>
           ELSE IF "Customer_R.CITY" \in missing
           THEN /\ regiones' = Regions_txt
                /\ pc' = "raise cargar_clientes"
                /\ UNCHANGED <<dimension_clientes, log>>
           ELSE IF "Customer_W.CITY" \in missing
           THEN /\ regiones' = regs
                /\ log' = log \o no_macheos(customer_r)
                /\ pc' = "raise cargar_clientes"
                /\ UNCHANGED dimension_clientes
           ELSE /\ regiones' = regs
                /\ dimension_clientes' = customer_r \o customer_w
                /\ log' = log \o no_macheos(customer_r) \o no_macheos(customer_w)
                /\ pc' = "cargar_empleados"
    /\ UNCHANGED <<inputs, dimension_empleados, dimension_productos,
                   dimension_tiempo, ventas, csv, dest, dump>>

\* the frame without one of its columns
drop_column(df, col) ==
    [i \in 1..Len(df) |-> [f \in (DOMAIN df[i]) \ {col} |-> df[i][f]]]

\* read_excel assigns the raw roster to self.dimension_empleados (line 340)
\* before traducir_empleado can raise on a missing column (line 543)
cargar_empleados ==
    /\ pc = "cargar_empleados"
    /\ IF "Employee.xls" \in missing
       THEN /\ pc' = "raise cargar_empleados"
            /\ UNCHANGED dimension_empleados
       ELSE IF "Employee.EMPLOYMENT_DATE" \in missing
       THEN /\ dimension_empleados' = drop_column(Employee_xls, "EMPLOYMENT_DATE")
            /\ pc' = "raise cargar_empleados"
       ELSE /\ dimension_empleados' = traducir_empleado(Employee_xls, today)
            /\ pc' = "cargar_productos"
    /\ UNCHANGED <<inputs, regiones, dimension_clientes, dimension_productos,
                   dimension_tiempo, ventas, csv, dest, dump, log>>

cargar_productos ==
    /\ pc = "cargar_productos"
    /\ IF \/ "Products.txt" \in missing
          \/ \E i \in 1..Len(Products_txt) : producto_raises(Products_txt[i])
       THEN /\ pc' = "raise cargar_productos"
            /\ UNCHANGED dimension_productos
       ELSE /\ dimension_productos' =
                   [i \in 1..Len(Products_txt) |-> producto_row(Products_txt[i])]
            /\ pc' = "cargar_dimension_tiempo_ventas"
    /\ UNCHANGED <<inputs, regiones, dimension_clientes, dimension_empleados,
                   dimension_tiempo, ventas, csv, dest, dump, log>>

\* the NoSuchTableError logged but not re-raised: the script goes on
cargar_dimension_tiempo_ventas_swallow ==
    /\ pc = "cargar_dimension_tiempo_ventas"
    /\ LET bdf == billing_df(billing_data)
       IN  IF missing \cap {"billing", "billing_detail", "prices"} # {}
           THEN UNCHANGED <<dimension_tiempo, ventas>>
           ELSE /\ dimension_tiempo' = tiempo_rows(bdf)
                /\ ventas' = ventas_rows(bdf, tiempo_rows(bdf))
    /\ pc' = "guardar_datos"
    /\ UNCHANGED <<inputs, regiones, dimension_clientes, dimension_empleados,
                   dimension_productos, csv, dest, dump, log>>

cargar_dimension_tiempo_ventas ==
    /\ pc = "cargar_dimension_tiempo_ventas"
    /\ LET bdf == billing_df(billing_data)
       IN  IF missing \cap {"billing", "billing_detail", "prices"} # {}
           THEN /\ pc' = "raise cargar_dimension_tiempo_ventas"
                /\ UNCHANGED <<dimension_tiempo, ventas>>
           ELSE /\ dimension_tiempo' = tiempo_rows(bdf)
                /\ ventas' = ventas_rows(bdf, tiempo_rows(bdf))
                /\ pc' = "guardar_datos"
    /\ UNCHANGED <<inputs, regiones, dimension_clientes, dimension_empleados,
                   dimension_productos, csv, dest, dump, log>>

guardar_datos ==
    /\ pc = "guardar_datos"
    /\ csv' = Some([dimension_clientes   |-> dimension_clientes,
                    dimension_vendedores |-> dimension_empleados,
                    dimension_productos  |-> dimension_productos,
                    dimension_tiempo     |-> dimension_tiempo,
                    tabla_hecho_ventas   |-> ventas])
    /\ pc' = "generar_esquema_sql"
    /\ UNCHANGED <<inputs, regiones, dimension_clientes, dimension_empleados,
                   dimension_productos, dimension_tiempo, ventas, dest, dump,
                   log>>

generar_esquema_sql ==
    /\ pc = "generar_esquema_sql"
    /\ dest' = [dest EXCEPT !.created = TRUE]
    /\ pc' = "insertar_datos"
    /\ UNCHANGED <<inputs, regiones, dimension_clientes, dimension_empleados,
                   dimension_productos, dimension_tiempo, ventas, csv, dump,
                   log>>

\* Each to_sql is its own transaction: the four dimension tables are
\* appended and committed, then the fact rows are appended unless a foreign
\* key fails, in which case the exception is re-raised (lines 209-211).
insertar_datos ==
    /\ pc = "insertar_datos"
    /\ LET dc == insert_clientes(dimension_clientes)
           de == insert_empleados(dimension_empleados)
           dp == insert_productos(dimension_productos)
           dt == insert_tiempo(dimension_tiempo)
           dv == insert_ventas(ventas)
           db == [dest EXCEPT
                     !.dimension_clientes = @ \o dc,
                     !.dimension_vendedores = @ \o de,
                     !.dimension_productos = @ \o dp,
                     !.dimension_tiempo = @ \o dt]
       IN  /\ dimension_clientes' = dc
           /\ dimension_empleados' = de
           /\ dimension_productos' = dp
           /\ dimension_tiempo' = dt
           /\ ventas' = dv
           /\ IF \A i \in 1..Len(dv) : fk_ok(dv[i], db)
              THEN /\ dest' = [db EXCEPT !.tabla_hecho_ventas =
                                  @ \o ventas_stored(dv, @)]
                   /\ pc' = "crear_dump_mysqldump"
              ELSE /\ dest' = db
                   /\ pc' = "raise insertar_datos"
    /\ UNCHANGED <<inputs, regiones, csv, dump, log>>

crear_dump_mysqldump ==
    /\ pc = "crear_dump_mysqldump"
    /\ dump' = Some(dest)
    /\ pc' = "done"
    /\ UNCHANGED <<inputs, regiones, dimension_clientes, dimension_empleados,
                   dimension_productos, dimension_tiempo, ventas, csv, dest,
                   log>>

Next ==
    \/ cargar_clientes
    \/ cargar_empleados
    \/ cargar_productos
    \/ cargar_dimension_tiempo_ventas
    \/ guardar_datos
    \/ generar_esquema_sql
    \/ insertar_datos
    \/ crear_dump_mysqldump

(***************************************************************************)
(* Initial states: the object after __init__ (empty frames, destination    *)
(* database dropped and re-created) and the source data of the run.        *)
(***************************************************************************)
Constructed ==
    /\ regiones = <<>>
    /\ dimension_clientes = <<>>
    /\ dimension_empleados = <<>>
    /\ dimension_productos = <<>>
    /\ dimension_tiempo = <<>>
    /\ ventas = <<>>
    /\ csv = None
    /\ dest = [created              |-> FALSE,
               dimension_clientes   |-> <<>>,
               dimension_vendedores |-> <<>>,
               dimension_productos  |-> <<>>,
               dimension_tiempo     |-> <<>>,
               tabla_hecho_ventas   |-> <<>>]
    /\ dump = None
    /\ log = <<>>
    /\ pc = "cargar_clientes"

\* the sequences over S of length lo..hi
SeqsOf(S, lo, hi) == UNION {[1..n -> S] : n \in lo..hi}

\* the text 'YYYY-MM-DD' of a date
iso(y, m, d) ==
    FmtNat(y, 4) \o <<"-">> \o FmtNat(m, 2) \o <<"-">> \o FmtNat(d, 2)

txt_LA == <<"L", "A">>

txt_CA == <<"C", "a">>

txt_north == <<" ", "N", "o", "r", "t", "h">>

txt_cola == <<"C", "o", "l", "a">>

txt_2_Liter == <<"2", " ", "L", "i", "t", "e", "r">>

txt_1 == <<"1">>

txt_2 == <<"2">>

RunDay == [year |-> 2026, month |-> 11, day |-> 1]

OneRegion ==
    <<[REGION |-> txt_north, STATE_ |-> txt_CA, CITY |-> txt_LA, ZIPCODE |-> 90001]>>

OneCustomer(id, name) ==
    [CUSTOMER_ID |-> id, FULL_NAME |-> name, CITY |-> txt_LA, STATE_ |-> txt_CA,
     BIRTH_DATE |-> iso(1990, 5, 17)]

OneEmployee(id, name) ==
    [EMPLOYEE_ID |-> id, FULL_NAME |-> name, GENDER |-> "F",
     EMPLOYMENT_DATE |-> iso(2020, 3, 9), BIRTH_DATE |-> iso(1985, 12, 24)]

OneProduct(id, detalle) ==
    [product_id |-> id, detalle |-> detalle, tipoEnvase |-> txt_2_Liter]

OneBilling(date, c, e, q) ==
    [date |-> date, customer_id |-> c, employee_id |-> e, product_id |-> q,
     quantity |-> 1, price |-> 5]

(***************************************************************************)
(* Bounds of the source data.                                              *)
(***************************************************************************)
MaxBilling == 3

MaxDimRows == 2

MaxRegions == 2

MaxCustomers == 1

MaxEmployees == 2

MaxWords == 3

MaxProducts == 2

(***************************************************************************)
(* Spec: the billing relations vary.  Customer 1, employee 1 and product 1 *)
(* exist in the other sources; key 2 exists in none of them.               *)
(***************************************************************************)
BillingDates == {iso(2024, 1, 5), iso(2024, 4, 7), iso(2024, 13, 1)}

BillingKeys == {<<1, 1, 1>>, <<2, 1, 1>>, <<1, 2, 1>>, <<1, 1, 2>>}

BillingRows ==
    {OneBilling(d, k[1], k[2], k[3]) : d \in BillingDates, k \in BillingKeys}

FixedDimensions ==
    /\ today = RunDay
    /\ Regions_txt = OneRegion
    /\ Customer_R = <<OneCustomer(1, <<"r", "1">>)>>
    /\ Customer_W = <<>>
    /\ Employee_xls = <<OneEmployee(1, <<"e", "1">>)>>
    /\ Products_txt = <<OneProduct(txt_1, txt_cola)>>

Init ==
    /\ Constructed
    /\ missing = {}
    /\ FixedDimensions
    /\ billing_data \in SeqsOf(BillingRows, 0, MaxBilling)

Spec == Init /\ [][Next]_vars

(***************************************************************************)
(* SpecCarga: the natural keys of the dimension sources vary, so that keys *)
(* repeat inside a source and between the two customer sources.            *)
(***************************************************************************)
DimIds == {1, 2}

ProductIds == {txt_1, txt_2}

TwoBillings ==
    <<OneBilling(iso(2024, 1, 5), 1, 1, 1), OneBilling(iso(2024, 4, 7), 1, 1, 1)>>

InitCarga ==
    /\ Constructed
    /\ missing = {}
    /\ today = RunDay
    /\ Regions_txt = OneRegion
    /\ \E ids \in SeqsOf(DimIds, 0, MaxDimRows) :
          Customer_R = [i \in 1..Len(ids) |->
                           OneCustomer(ids[i], <<"r">> \o FmtNat(i, 1))]
    /\ \E ids \in SeqsOf(DimIds, 0, MaxDimRows) :
          Customer_W = [i \in 1..Len(ids) |->
                           OneCustomer(ids[i], <<"w">> \o FmtNat(i, 1))]
    /\ \E ids \in SeqsOf(DimIds, 0, MaxDimRows) :
          Employee_xls = [i \in 1..Len(ids) |->
                             OneEmployee(ids[i], <<"e">> \o FmtNat(i, 1))]
    /\ \E ids \in SeqsOf(ProductIds, 0, MaxDimRows) :
          Products_txt = [i \in 1..Len(ids) |->
                             OneProduct(ids[i], txt_cola \o FmtNat(i, 1))]
    /\ billing_data = TwoBillings

SpecCarga == InitCarga /\ [][Next]_vars

(***************************************************************************)
(* SpecRegion: the city and state of the customers and the region table    *)
(* vary in case and surrounding whitespace.                                *)
(***************************************************************************)
CustomerCities == {<<"L", "A">>,
     <<" ", "l", "a", " ">>,
     <<"S", "F">>}

CustomerStates == {<<"C", "a">>,
     <<"N", "V", " ">>}

RegionCities == {<<"L", "a">>,
     <<"s", "f", " ">>}

RegionStates == {<<"C", "A">>,
     <<" ", "n", "v">>}

RegionNames == {<<" ", "N", "o", "r", "t", "h", " ">>,
     <<"S", "o", "u", "t", "h">>}

RegionRows ==
    {[REGION |-> r, STATE_ |-> st, CITY |-> c, ZIPCODE |-> 90001] :
         r \in RegionNames, st \in RegionStates, c \in RegionCities}

CustomerRows(id, name) ==
    {[OneCustomer(id, name) EXCEPT !.CITY = c, !.STATE_ = st] :
         c \in CustomerCities, st \in CustomerStates}

InitRegion ==
    /\ Constructed
    /\ missing = {}
    /\ today = RunDay
    /\ Regions_txt \in SeqsOf(RegionRows, 0, MaxRegions)
    /\ \E n \in 1..MaxCustomers :
          Customer_R \in [1..n -> CustomerRows(1, <<"r", "1">>)]
    /\ Customer_W \in [1..1 -> CustomerRows(2, <<"w", "1">>)]
    /\ Employee_xls = <<OneEmployee(1, <<"e", "1">>)>>
    /\ Products_txt = <<OneProduct(txt_1, txt_cola)>>
    /\ billing_data = TwoBillings

SpecRegion == InitRegion /\ [][Next]_vars

(***************************************************************************)
(* SpecEdad: the birth date of the retail customer and the run date vary   *)
(* around the bracket edges and around the birthday.                       *)
(***************************************************************************)
AgeYears == {0, 19, 20, 21, 39, 40, 41, 59, 60, 61}

RunDays == {RunDay, [RunDay EXCEPT !.day = 2]}

UnparsableDates == {<<>>, <<"n", "/", "a">>, iso(1990, 2, 30)}

BirthDates ==
    {iso(RunDay.year - a, m, d) : a \in AgeYears, m \in {10, 11, 12}, d \in {1, 2}}
    \cup UnparsableDates

InitEdad ==
    /\ Constructed
    /\ missing = {}
    /\ today \in RunDays
    /\ Regions_txt = OneRegion
    /\ \E b \in BirthDates :
          Customer_R = <<[OneCustomer(1, <<"r", "1">>) EXCEPT !.BIRTH_DATE = b]>>
    /\ Customer_W = <<OneCustomer(2, <<"w", "1">>)>>
    /\ Employee_xls = <<OneEmployee(1, <<"e", "1">>)>>
    /\ Products_txt = <<OneProduct(txt_1, txt_cola)>>
    /\ billing_data = TwoBillings

SpecEdad == InitEdad /\ [][Next]_vars

(***************************************************************************)
(* SpecEmpleados: the hire dates vary around the tenure zone edges.        *)
(***************************************************************************)
HireYears == {2020, 2021, 2022, 2025, 2026, 2027}

HireDates ==
    {iso(y, md[1], md[2]) : y \in HireYears,
                            md \in {<<10, 31>>, <<11, 1>>, <<11, 2>>}}
    \cup {<<"n", "/", "a">>}

InitEmpleados ==
    /\ Constructed
    /\ missing = {}
    /\ today = RunDay
    /\ Regions_txt = OneRegion
    /\ Customer_R = <<OneCustomer(1, <<"r", "1">>)>>
    /\ Customer_W = <<>>
    /\ \E n \in 1..MaxEmployees : \E hs \in [1..n -> HireDates] :
          Employee_xls = [i \in 1..n |->
                             [OneEmployee(i, <<"e">> \o FmtNat(i, 1))
                                 EXCEPT !.EMPLOYMENT_DATE = hs[i]]]
    /\ Products_txt = <<OneProduct(txt_1, txt_cola)>>
    /\ billing_data = TwoBillings

SpecEmpleados == InitEmpleados /\ [][Next]_vars

(***************************************************************************)
(* SpecBebida: the description of the product is a phrase of keywords.     *)
(***************************************************************************)
Words == {<<"D", "i", "e", "t">>,
     <<"S", "O", "D", "A">>,
     <<"J", "u", "i", "c", "e">>,
     <<"e", "n", "e", "r", "g", "y">>,
     <<"K", "o", "o", "l">>,
     <<"R", "o", "o", "t">>,
     <<"C", "a", "f", "f", "e", "i", "n", "e">>,
     <<"C", "o", "l", "a">>}

RECURSIVE Join(_)
\* ' '.join(ws)
Join(ws) ==
    IF Len(ws) = 1 THEN ws[1] ELSE ws[1] \o <<" ">> \o Join(Tail(ws))

Descriptions == {Join(ws) : ws \in SeqsOf(Words, 1, MaxWords)}

InitBebida ==
    /\ Constructed
    /\ missing = {}
    /\ today = RunDay
    /\ Regions_txt = OneRegion
    /\ Customer_R = <<OneCustomer(1, <<"r", "1">>)>>
    /\ Customer_W = <<>>
    /\ Employee_xls = <<OneEmployee(1, <<"e", "1">>)>>
    /\ \E d \in Descriptions : Products_txt = <<OneProduct(txt_1, d)>>
    /\ billing_data = TwoBillings

SpecBebida == InitBebida /\ [][Next]_vars

(***************************************************************************)
(* SpecLitros: the id and the package descriptor of the products vary.     *)
(***************************************************************************)
Packages == {<<"2", " ", "L", "i", "t", "e", "r">>,
     <<"5", "0", "0", " ", "c", "m", "3">>,
     <<"1", " ", "G", "a", "l", "l", "o", "n">>,
     <<"1", "2", " ", "C", "a", "n">>,
     <<"x", " ", "L", "i", "t", "e", "r">>,
     <<"x", " ", "G", "a", "l", "l", "o", "n">>,
     <<"L", "i", "t", "e", "r">>}

RawProductIds == {<<"1", " ">>,
     <<"2">>,
     <<"x">>}

CatalogRows ==
    {[product_id |-> id, detalle |-> txt_cola, tipoEnvase |-> pk] :
         id \in RawProductIds, pk \in Packages}

InitLitros ==
    /\ Constructed
    /\ missing = {}
    /\ today = RunDay
    /\ Regions_txt = OneRegion
    /\ Customer_R = <<OneCustomer(1, <<"r", "1">>)>>
    /\ Customer_W = <<>>
    /\ Employee_xls = <<OneEmployee(1, <<"e", "1">>)>>
    /\ Products_txt \in SeqsOf(CatalogRows, 1, MaxProducts)
    /\ billing_data = TwoBillings

SpecLitros == InitLitros /\ [][Next]_vars

(***************************************************************************)
(* SpecFallas: any of the source files, source relations and required      *)
(* columns may be absent, and the catalog may hold a malformed row.        *)
(***************************************************************************)
Sources ==
    {"Customer_R.xml", "Customer_W.xml", "Regions.txt", "Customer_R.CITY",
     "Customer_W.CITY", "Employee.xls", "Employee.EMPLOYMENT_DATE",
     "Products.txt", "billing", "billing_detail", "prices"}

InitFallas ==
    /\ Constructed
    /\ missing \in SUBSET Sources
    /\ today = RunDay
    /\ Regions_txt = OneRegion
    /\ Customer_R = <<OneCustomer(1, <<"r", "1">>)>>
    /\ Customer_W = <<OneCustomer(2, <<"w", "1">>)>>
    /\ Employee_xls = <<OneEmployee(1, <<"e", "1">>)>>
    /\ Products_txt \in {<<OneProduct(txt_1, txt_cola)>>,
                         <<[OneProduct(txt_1, txt_cola) EXCEPT !.tipoEnvase = kw_Liter]>>}
    /\ billing_data = TwoBillings

SpecFallas == InitFallas /\ [][Next]_vars

(***************************************************************************)
(* Positions of the script at which a frame holds what its conformer       *)
(* built: insertar_datos later rewrites the frames in place.               *)
(***************************************************************************)
ClientesLoaded ==
    pc \in {"cargar_empleados", "cargar_productos", "raise cargar_productos",
            "cargar_dimension_tiempo_ventas", "guardar_datos",
            "generar_esquema_sql", "insertar_datos"}

EmpleadosLoaded ==
    pc \in {"cargar_productos", "raise cargar_productos",
            "cargar_dimension_tiempo_ventas", "guardar_datos",
            "generar_esquema_sql", "insertar_datos"}

ProductosLoaded ==
    pc \in {"cargar_dimension_tiempo_ventas", "guardar_datos",
            "generar_esquema_sql", "insertar_datos"}

TiempoBuilt == pc \in {"guardar_datos", "generar_esquema_sql", "insertar_datos"}

Inserted == pc \in {"crear_dump_mysqldump", "done"}

\* the joined rows whose transaction date parses, in source order
ParsableIdx == {i \in 1..Len(billing_data) : ~isnull(to_datetime(billing_data[i].date))}

ParsableRows == Pick(billing_data, ParsableIdx, 1)

ParsableDates == {Val(to_datetime(billing_data[i].date)) : i \in ParsableIdx}

FirstSeen(d) ==
    SetMin({i \in ParsableIdx : Val(to_datetime(billing_data[i].date)) = d})

(***************************************************************************)
(* C1: once the time and fact builder has run, the time dimension has      *)
(* exactly one row per distinct parsable transaction date, its id_tiempo   *)
(* values are exactly 1..N without gaps or repeats, and the ids follow the *)
(* order in which the dates are first seen in the joined rows.             *)
(***************************************************************************)
C1_TiempoIds ==
    TiempoBuilt =>
        /\ {Val(dimension_tiempo[i].fecha) : i \in 1..Len(dimension_tiempo)}
               = ParsableDates
        /\ Len(dimension_tiempo) = Cardinality(ParsableDates)
        /\ \A i \in 1..Len(dimension_tiempo) : dimension_tiempo[i].id_tiempo = i
        /\ \A i, j \in 1..Len(dimension_tiempo) :
               dimension_tiempo[i].id_tiempo < dimension_tiempo[j].id_tiempo
                   => FirstSeen(Val(dimension_tiempo[i].fecha))
                          < FirstSeen(Val(dimension_tiempo[j].fecha))

\* three joined rows, a later calendar date seen first, and a repeated date
C1_Witness ==
    /\ TiempoBuilt
    /\ Len(billing_data) = 3
    /\ ParsableIdx = {1, 2, 3}
    /\ Len(dimension_tiempo) = 2
    /\ dimension_tiempo[1].mes = 4
    /\ dimension_tiempo[2].mes = 1
    /\ to_datetime(billing_data[3].date) = dimension_tiempo[1].fecha

(***************************************************************************)
(* C2: every fact row has a non-null id_tiempo, which is the id of the     *)
(* time-dimension row holding the transaction date of its source row; a    *)
(* joined row whose date does not parse gives no fact row.                 *)
(***************************************************************************)
C2_FactTimeKey ==
    TiempoBuilt =>
        /\ Len(ventas) = Len(ParsableRows)
        /\ \A k \in 1..Len(ventas) :
               /\ ~isnull(ventas[k].id_tiempo)
               /\ \E t \in 1..Len(dimension_tiempo) :
                      /\ dimension_tiempo[t].id_tiempo = Val(ventas[k].id_tiempo)
                      /\ dimension_tiempo[t].fecha
                             = to_datetime(ParsableRows[k].date)
               /\ ventas[k].id_cliente = ParsableRows[k].customer_id
               /\ ventas[k].cantidad = ParsableRows[k].quantity

\* a row with an unparsable date lies between two rows of different dates
C2_Witness ==
    /\ TiempoBuilt
    /\ Len(billing_data) = 3
    /\ ParsableIdx = {1, 3}
    /\ Len(ventas) = 2
    /\ ventas[1].id_tiempo = Some(1)
    /\ ventas[2].id_tiempo = Some(2)

(***************************************************************************)
(* C3: after insertar_datos the fact table of the destination holds        *)
(* exactly one row per joined row with a parsable date: nothing is         *)
(* aggregated or dropped, even when rows share all their keys.             *)
(***************************************************************************)
C3_OneFactPerJoinedRow ==
    Inserted => Len(dest.tabla_hecho_ventas) = Len(ParsableRows)

(***************************************************************************)
(* C5: every fact row's customer, employee and product keys are keys of    *)
(* a row of the customer, employee and product dimension of the same run.  *)
(***************************************************************************)
C5_FactKeysInDimensions ==
    TiempoBuilt =>
        \A k \in 1..Len(ventas) :
            /\ \E c \in Range(dimension_clientes) : c.id_cliente = ventas[k].id_cliente
            /\ \E e \in Range(dimension_empleados) : e.id_vendedor = ventas[k].id_vendedor
            /\ \E q \in Range(dimension_productos) : q.product_id = ventas[k].id_producto

(***************************************************************************)
(* C4: for each of the four dimension tables, the rows insertar_datos      *)
(* appends to the destination have pairwise distinct keys, no key of the   *)
(* conformed table is lost, and for every key the appended row is the      *)
(* first row of the conformed table with that key (dates rewritten as      *)
(* text); a customer id present in both customer sources keeps the retail  *)
(* record.                                                                 *)
(***************************************************************************)
Appended(old, new) == SubSeq(new, Len(old) + 1, Len(new))

FirstWins(frame, rows, Key(_), Stored(_)) ==
    /\ \A i, j \in 1..Len(rows) : i # j => Key(rows[i]) # Key(rows[j])
    /\ {Key(rows[i]) : i \in 1..Len(rows)} = {Key(frame[i]) : i \in 1..Len(frame)}
    /\ \A i \in 1..Len(rows) :
           rows[i] = Stored(frame[SetMin({k \in 1..Len(frame) :
                                              Key(frame[k]) = Key(rows[i])})])

C4_DedupFirstWins ==
    [][insertar_datos =>
          /\ FirstWins(dimension_clientes,
                       Appended(dest.dimension_clientes, dest'.dimension_clientes),
                       LAMBDA r : r.id_cliente, LAMBDA r : r)
          /\ FirstWins(dimension_empleados,
                       Appended(dest.dimension_vendedores, dest'.dimension_vendedores),
                       LAMBDA r : r.id_vendedor,
                       LAMBDA r : [r EXCEPT !.fecha_nacimiento =
                                                strftime(to_datetime(@))])
          /\ FirstWins(dimension_productos,
                       Appended(dest.dimension_productos, dest'.dimension_productos),
                       LAMBDA r : r.product_id, LAMBDA r : r)
          /\ FirstWins(dimension_tiempo,
                       Appended(dest.dimension_tiempo, dest'.dimension_tiempo),
                       LAMBDA r : r.id_tiempo,
                       LAMBDA r : [r EXCEPT !.fecha = strftime(@)])
          /\ \A i \in 1..Len(dest'.dimension_clientes) :
                 (\E k \in 1..Len(Customer_R) :
                      Customer_R[k].CUSTOMER_ID = dest'.dimension_clientes[i].id_cliente)
                     => dest'.dimension_clientes[i].tipo_cliente = "minorista"
    ]_vars

\* every dimension source repeated a key, and a retail and a wholesale
\* customer share an id
C4_Witness ==
    /\ Inserted
    /\ \E i \in 1..Len(Customer_R) : \E j \in 1..Len(Customer_W) :
           Customer_R[i].CUSTOMER_ID = Customer_W[j].CUSTOMER_ID
    /\ Len(dest.dimension_clientes) < Len(Customer_R) + Len(Customer_W)
    /\ Len(dest.dimension_vendedores) < Len(Employee_xls)
    /\ Len(dest.dimension_productos) < Len(Products_txt)
    /\ Len(dest.dimension_tiempo) = 2

(***************************************************************************)
(* C6: a customer whose lowercased and trimmed (city, state) equals that   *)
(* of some row of the region table gets the trimmed region of the first    *)
(* such row; any other customer gets no region and one warning, and the    *)
(* run goes on.                                                            *)
(***************************************************************************)
AllCustomers == Customer_R \o Customer_W

Normal(txt) == str_strip(str_lower(txt))

RegionMatches(c) ==
    {k \in 1..Len(Regions_txt) :
         /\ Normal(Regions_txt[k].CITY) = Normal(c.CITY)
         /\ Normal(Regions_txt[k].STATE_) = Normal(c.STATE_)}

C6_RegionLookup ==
    /\ pc \notin {"raise cargar_productos", "raise insertar_datos"}
    /\ ClientesLoaded =>
           /\ Len(dimension_clientes) = Len(AllCustomers)
           /\ \A i \in 1..Len(AllCustomers) :
                  IF RegionMatches(AllCustomers[i]) # {}
                  THEN dimension_clientes[i].zona =
                           Some(str_strip(Regions_txt[
                               SetMin(RegionMatches(AllCustomers[i]))].REGION))
                  ELSE /\ isnull(dimension_clientes[i].zona)
                       /\ <<Normal(AllCustomers[i].CITY), Normal(AllCustomers[i].STATE_)>>
                              \in Range(log)
           /\ Len(log) = Cardinality({i \in 1..Len(AllCustomers) :
                                          RegionMatches(AllCustomers[i]) = {}})

\* the retail customer matches two region rows of different regions under
\* another spelling, the wholesale customer matches none
C6_Witness ==
    /\ ClientesLoaded
    /\ Cardinality(RegionMatches(Customer_R[1])) = 2
    /\ Regions_txt[1].REGION # Regions_txt[2].REGION
    /\ Regions_txt[1].CITY # Customer_R[1].CITY
    /\ dimension_clientes[1].zona = Some(str_strip(Regions_txt[1].REGION))
    /\ RegionMatches(Customer_W[1]) = {}
    /\ Len(log) = 1

(***************************************************************************)
(* C7: the age bracket is a function of the birth date and the run date:   *)
(* with age = run year - birth year, less 1 when the run (month, day) is   *)
(* before the birth (month, day), it is 'Menos de 20' iff age < 20,        *)
(* '20 a 40' iff 20 <= age < 40, '40 a 60' iff 40 <= age < 60, 'Mas de 60' *)
(* iff age >= 60 and 'Desconocido' iff the birth date is undefined; a      *)
(* customer born exactly 20 years before the run date gets '20 a 40'.      *)
(***************************************************************************)
AgeAt(b, run) ==
    run.year - b.year
    - (IF 100 * run.month + run.day < 100 * b.month + b.day THEN 1 ELSE 0)

BracketOK(raw, bracket) ==
    LET b == to_datetime(raw)
    IN  /\ bracket = "Desconocido" <=> isnull(b)
        /\ ~isnull(b) =>
               /\ bracket = "Menos de 20" <=> AgeAt(Val(b), today) < 20
               /\ bracket = "20 a 40"
                      <=> (20 <= AgeAt(Val(b), today) /\ AgeAt(Val(b), today) < 40)
               /\ bracket = "40 a 60"
                      <=> (40 <= AgeAt(Val(b), today) /\ AgeAt(Val(b), today) < 60)
               /\ bracket = "Mas de 60" <=> AgeAt(Val(b), today) >= 60
               /\ Val(b) = [today EXCEPT !.year = @ - 20] => bracket = "20 a 40"

C7_AgeBracket ==
    ClientesLoaded =>
        \A i \in 1..Len(AllCustomers) :
            BracketOK(AllCustomers[i].BIRTH_DATE, dimension_clientes[i].rango_edad)

\* the retail customer was born exactly 20 years before the run date
C7_Witness ==
    /\ ClientesLoaded
    /\ to_datetime(Customer_R[1].BIRTH_DATE) = Some([today EXCEPT !.year = @ - 20])
    /\ dimension_clientes[1].rango_edad = "20 a 40"

(***************************************************************************)
(* C8: for an employee with a parsable hire date, antiguedad is the floor  *)
(* of the days between the run date and the hire date over 365, the zone   *)
(* is 'Nuevo' iff antiguedad < 1, 'Medio' iff 1 <= antiguedad < 5 and      *)
(* 'Antiguo' iff antiguedad >= 5, and so the zone never decreases as the   *)
(* elapsed days grow.                                                      *)
(***************************************************************************)
ElapsedDays(raw) == toordinal(today) - toordinal(Val(to_datetime(raw)))

ZoneRank(z) == IF z = "Nuevo" THEN 1 ELSE IF z = "Medio" THEN 2 ELSE 3

HiredIdx == {i \in 1..Len(Employee_xls) :
                 ~isnull(to_datetime(Employee_xls[i].EMPLOYMENT_DATE))}

C8_TenureZone ==
    EmpleadosLoaded =>
        /\ Len(dimension_empleados) = Len(Employee_xls)
        /\ \A i \in HiredIdx :
               LET e == dimension_empleados[i]
                   days == ElapsedDays(Employee_xls[i].EMPLOYMENT_DATE)
               IN  /\ ~isnull(e.antiguedad)
                   /\ 365 * Val(e.antiguedad) <= days
                   /\ days < 365 * (Val(e.antiguedad) + 1)
                   /\ e.zona = "Nuevo" <=> Val(e.antiguedad) < 1
                   /\ e.zona = "Medio"
                          <=> (1 <= Val(e.antiguedad) /\ Val(e.antiguedad) < 5)
                   /\ e.zona = "Antiguo" <=> Val(e.antiguedad) >= 5
        /\ \A i, j \in HiredIdx :
               ElapsedDays(Employee_xls[i].EMPLOYMENT_DATE)
                   <= ElapsedDays(Employee_xls[j].EMPLOYMENT_DATE)
               => ZoneRank(dimension_empleados[i].zona)
                      <= ZoneRank(dimension_empleados[j].zona)

\* one employee hired 365 days ago, another 5 * 365 days ago
C8_Witness ==
    /\ EmpleadosLoaded
    /\ Len(Employee_xls) = 2
    /\ HiredIdx = {1, 2}
    /\ ElapsedDays(Employee_xls[1].EMPLOYMENT_DATE) = 365
    /\ dimension_empleados[1].zona = "Medio"
    /\ ElapsedDays(Employee_xls[2].EMPLOYMENT_DATE) = 1825
    /\ dimension_empleados[2].zona = "Antiguo"

(***************************************************************************)
(* C9: the beverage type of a description is that of the earliest rule,    *)
(* in the order diet, caffeine, energy, kool, root, juice, soda, whose     *)
(* keyword the lowercased description contains, and 'Otro tipo de bebida'  *)
(* iff it contains none; diet with soda is diet, and energy with juice is  *)
(* energy when the description holds neither diet nor caffeine.            *)
(***************************************************************************)
Rules ==
    <<<<kw_diet, "Bebida de dieta">>, <<kw_caffeine, "Bebida de cafeina">>,
      <<kw_energy, "Bebida energetica">>, <<kw_kool, "Bebida Kool">>,
      <<kw_root, "Bebida Root">>, <<kw_juice, "Jugo">>,
      <<kw_soda, "Bebida de soda">>>>

RuleHits(detalle) ==
    {k \in 1..Len(Rules) : str_contains(str_lower(detalle), Rules[k][1])}

EarliestRule(detalle, tipo) ==
    /\ RuleHits(detalle) # {} => tipo = Rules[SetMin(RuleHits(detalle))][2]
    /\ RuleHits(detalle) = {} <=> tipo = "Otro tipo de bebida"
    /\ {1, 7} \subseteq RuleHits(detalle) => tipo = "Bebida de dieta"

C9_FirstRuleWins ==
    ProductosLoaded =>
        \A i \in 1..Len(dimension_productos) :
            /\ EarliestRule(Products_txt[i].detalle, dimension_productos[i].tipoBebida)
            /\ ({3, 6} \subseteq RuleHits(Products_txt[i].detalle)
                    /\ RuleHits(Products_txt[i].detalle) \cap {1, 2} = {})
                   => dimension_productos[i].tipoBebida = "Bebida energetica"

\* the description 'SODA Juice energy' holds the energy keyword last
C9_Witness ==
    /\ ProductosLoaded
    /\ Products_txt[1].detalle = <<"S", "O", "D", "A", " ", "J", "u", "i", "c", "e", " ", "e", "n", "e", "r", "g", "y">>
    /\ dimension_productos[1].tipoBebida = "Bebida energetica"

\* C9 as first stated: every description that contains both energy and
\* juice is classified as energy
C9_EnergyJuiceAlwaysEnergy ==
    ProductosLoaded =>
        \A i \in 1..Len(dimension_productos) :
            /\ EarliestRule(Products_txt[i].detalle, dimension_productos[i].tipoBebida)
            /\ {3, 6} \subseteq RuleHits(Products_txt[i].detalle)
                   => dimension_productos[i].tipoBebida = "Bebida energetica"

(***************************************************************************)
(* C10: for a package descriptor '<number> <unit>' the volume is the       *)
(* number when the unit is Liter, the number / 1000 when it is cm3 and     *)
(* undefined for any other unit; an unrecognized unit is no error: the     *)
(* product conformer only fails on a row that is not of that form or whose *)
(* id is not numeric, and otherwise emits one row per catalog row.         *)
(***************************************************************************)
NumberUnit(pk) ==
    LET toks == str_split(pk, " ") IN Len(toks) = 2 /\ IsDigits(toks[1])

VolumeOK(pk, litros) ==
    LET toks == str_split(pk, " ")
        n == ParseNat(toks[1])
    IN  IF toks[2] = kw_Liter
        THEN ~isnull(litros) /\ Val(litros).num = n * Val(litros).den
        ELSE IF toks[2] = kw_cm3
        THEN ~isnull(litros) /\ 1000 * Val(litros).num = n * Val(litros).den
        ELSE isnull(litros)

C10_Volume ==
    /\ \A i \in 1..Len(Products_txt) :
           NumberUnit(Products_txt[i].tipoEnvase)
               => ~transform_liters(str_split(Products_txt[i].tipoEnvase, " ")).raises
    /\ pc = "raise cargar_productos" =>
           \E i \in 1..Len(Products_txt) :
               \/ ~NumberUnit(Products_txt[i].tipoEnvase)
               \/ ~IsDigits(str_strip(Products_txt[i].product_id))
    /\ ProductosLoaded =>
           /\ Len(dimension_productos) = Len(Products_txt)
           /\ \A i \in 1..Len(Products_txt) :
                  NumberUnit(Products_txt[i].tipoEnvase)
                      => VolumeOK(Products_txt[i].tipoEnvase,
                                  dimension_productos[i].litros)

\* '1 Gallon' gives no volume and '500 cm3' gives half a liter
C10_Witness ==
    /\ ProductosLoaded
    /\ Len(Products_txt) = 2
    /\ Products_txt[1].tipoEnvase = <<"1", " ", "G", "a", "l", "l", "o", "n">>
    /\ isnull(dimension_productos[1].litros)
    /\ Products_txt[2].tipoEnvase = <<"5", "0", "0", " ", "c", "m", "3">>
    /\ ~isnull(dimension_productos[2].litros)
    /\ 2 * Val(dimension_productos[2].litros).num = Val(dimension_productos[2].litros).den

(***************************************************************************)
(* C11: a per-row parse problem never aborts a conformer: a catalog row    *)
(* whose id or volume number is not numeric, or whose descriptor has no    *)
(* unit token, still gives a product row (with the volume undefined when   *)
(* it cannot be derived), and every other row of the catalog is conformed  *)
(* too; likewise a customer or an employee with an unparsable date is      *)
(* kept.                                                                   *)
(***************************************************************************)
C11_ParseProblemNeverAborts ==
    /\ pc # "raise cargar_productos"
    /\ ClientesLoaded => Len(dimension_clientes) = Len(AllCustomers)
    /\ EmpleadosLoaded => Len(dimension_empleados) = Len(Employee_xls)
    /\ ProductosLoaded =>
           /\ Len(dimension_productos) = Len(Products_txt)
           /\ \A i \in 1..Len(Products_txt) :
                  ~NumberUnit(Products_txt[i].tipoEnvase)
                      => isnull(dimension_productos[i].litros)

(***************************************************************************)
(* C12: the stages run in the fixed order customers, employees, products,  *)
(* time and fact build, CSV save, schema creation, load; a stage whose     *)
(* source file, relation or column is missing raises, after which no step  *)
(* is taken (no retry, no later stage); so the destination holds rows only *)
(* if nothing was missing, the four conformers and the schema creation     *)
(* completed and the script is at or past the load.                        *)
(***************************************************************************)
Stages ==
    <<"cargar_clientes", "cargar_empleados", "cargar_productos",
      "cargar_dimension_tiempo_ventas", "guardar_datos", "generar_esquema_sql",
      "insertar_datos", "crear_dump_mysqldump", "done">>

Raised ==
    <<"raise cargar_clientes", "raise cargar_empleados", "raise cargar_productos",
      "raise cargar_dimension_tiempo_ventas", "raise guardar_datos",
      "raise generar_esquema_sql", "raise insertar_datos",
      "raise crear_dump_mysqldump">>

StageSources ==
    <<{"Customer_R.xml", "Customer_W.xml", "Regions.txt", "Customer_R.CITY",
       "Customer_W.CITY"},
      {"Employee.xls", "Employee.EMPLOYMENT_DATE"},
      {"Products.txt"},
      {"billing", "billing_detail", "prices"},
      {}, {}, {}, {}>>

DestRows ==
    dest.dimension_clientes \o dest.dimension_vendedores
    \o dest.dimension_productos \o dest.dimension_tiempo
    \o dest.tabla_hecho_ventas

C12_StageOrderAndStop ==
    [][/\ \E k \in 1..Len(Raised) :
              /\ pc = Stages[k]
              /\ pc' \in {Stages[k + 1], Raised[k]}
              /\ missing \cap StageSources[k] # {} => pc' = Raised[k]
       /\ DestRows' # <<>> =>
              /\ missing = {}
              /\ dest'.created
              /\ ~isnull(csv')
              /\ pc' \in {"crear_dump_mysqldump", "done", "raise insertar_datos"}
    ]_vars

\* the price relation is missing: the three conformers ran, the fact builder
\* raised, and neither the CSV save, the schema creation nor the load ran
C12_Witness ==
    /\ missing = {"prices"}
    /\ pc = "raise cargar_dimension_tiempo_ventas"
    /\ dimension_clientes # <<>>
    /\ dimension_empleados # <<>>
    /\ dimension_productos # <<>>
    /\ isnull(csv)
    /\ ~dest.created
    /\ DestRows = <<>>

(***************************************************************************)
(* C13: a run that halts in insertar_datos leaves no partial write: when   *)
(* the append of one of the five tables fails, the destination holds no    *)
(* rows of that table nor of the tables appended before it.                *)
(***************************************************************************)
C13_NoPartialWrite ==
    pc = "raise insertar_datos" => DestRows = <<>>

(***************************************************************************)
(* C14: an employee whose hire date cannot be parsed is kept in the        *)
(* employee dimension, the conformer does not raise, antiguedad is         *)
(* undefined and the zone is 'Antiguo', and the row reaches the            *)
(* destination as such.                                                    *)
(***************************************************************************)
UnhiredIdx == (1..Len(Employee_xls)) \ HiredIdx

C14_UnparsableHireDateIsAntiguo ==
    /\ pc # "raise cargar_empleados"
    /\ EmpleadosLoaded =>
           /\ Len(dimension_empleados) = Len(Employee_xls)
           /\ \A i \in UnhiredIdx :
                  /\ dimension_empleados[i].id_vendedor = Employee_xls[i].EMPLOYEE_ID
                  /\ isnull(dimension_empleados[i].antiguedad)
                  /\ dimension_empleados[i].zona = "Antiguo"
    /\ pc \in {"crear_dump_mysqldump", "done", "raise insertar_datos"} =>
           \A i \in UnhiredIdx :
               \E e \in Range(dest.dimension_vendedores) :
                   /\ e.id_vendedor = Employee_xls[i].EMPLOYEE_ID
                   /\ isnull(e.antiguedad)
                   /\ e.zona = "Antiguo"

\* the first employee has no parsable hire date, the second was hired less
\* than a year ago
C14_Witness ==
    /\ pc = "done"
    /\ Len(Employee_xls) = 2
    /\ UnhiredIdx = {1}
    /\ ElapsedDays(Employee_xls[2].EMPLOYMENT_DATE) \in 0..364
    /\ Len(dest.dimension_vendedores) = 2
    /\ dest.dimension_vendedores[1].zona = "Antiguo"
    /\ isnull(dest.dimension_vendedores[1].antiguedad)
    /\ dest.dimension_vendedores[2].zona = "Nuevo"

====
